---- MODULE Spec2Model ----
(***************************************************************************)
(* A model of webview2_win32/src/main.rs: the UI thread of a WebView       *)
(* session (run's message loop, wait_with_pump's nested loop, the          *)
(* WebMessageReceived handler, the window procedure), the DispatchQueue    *)
(* (the mpsc channel tx/rx plus the WM_APP wake message), the              *)
(* BindingRegistry (bindings) and the threads that call dispatch.          *)
(*                                                                         *)
(* The UI thread is a stack machine: `stack` holds the frames of the       *)
(* functions that are on the thread's call stack, the last one being the   *)
(* one that runs.  A frame that pumps messages (run's loop, a              *)
(* wait_with_pump) sits under the frames of whatever the message it        *)
(* dispatched has called.                                                  *)
(*                                                                         *)
(* A closure's id is its position in the order of the sends on tx: the     *)
(* k-th closure sent has id k.  What a queued message says (the text of a  *)
(* web message, the outcome of a completed operation) is read only when    *)
(* the message is dispatched, and is chosen there.                         *)
(***************************************************************************)
EXTENDS Integers, Sequences, FiniteSets, TLC

\* ---------------------------------------------------------------- bounds
NThreads == 2          \* threads other than the UI thread that call dispatch
MaxMsgs == 2           \* web messages the page posts
MaxBinds == 2          \* bind calls made before run
MaxClose == 1          \* WM_CLOSE messages the user's close button posts
MaxInputs == 3         \* inputs of all kinds together

Threads == 1..NThreads
MsgIds == 1..MaxMsgs
Methods == {"Add", "Fail"}
Callbacks == {"sum", "boom", "pump"}
\* The bind calls main may make: Add with any of the callbacks, Fail with
\* the one that always fails.
BindChoices == ({"Add"} \X Callbacks) \cup {<<"Fail", "boom">>}
CompletionValues == {"S_OK", "E_FAIL"}
Urls == {"", "https://github.com/microsoft/windows-rs"}
NoVal == "none"
UiThread == 0

VARIABLES
    stack,        \* the UI thread's call stack (Seq of frames)
    result,       \* "none" while the UI thread runs, else how it ended
    dq,           \* the DispatchQueue: closures sent on tx, not yet received on rx
    sends,        \* closures sent on tx so far
    msgq,         \* the UI thread's posted-message queue
    quitPosted,   \* PostQuitMessage was called and WM_QUIT not yet retrieved
    quitRetrieved,\* history: GetMessageA has returned 0
    bindings,     \* the BindingRegistry: name -> callback
    lockHeld,     \* the bindings mutex is held
    url,          \* the pending navigation target
    navHandler,   \* op of the wait the NavigationCompleted handler sends to, 0: none
    navState,     \* "idle", "started" (Navigate called), "completed"
    shown,        \* ShowWindow was called
    windowState,  \* GWLP_USERDATA of the frame window: 1 a boxed WebView, 0 none
    windowAlive,  \* the frame window was not destroyed
    released,     \* boxed WebViews reclaimed by set_window_webview
    owned,        \* the session owns its frame window (create(None, ..))
    thr,          \* each dispatching thread: "idle", "sent", "done"
    posted,       \* web messages posted so far
    closes,       \* WM_CLOSE messages posted so far
    binds,        \* bind calls made so far
    pending,      \* async operations started and not yet completed
    nextOp,       \* the next async operation's id
    executed,     \* history: the closures whose execution started, in order
    resolutions,  \* history: per message id, resolve closures dispatched
    evalCount,    \* history: per message id, resolution scripts evaluated
    lastScript,   \* the last script handed to ExecuteScript
    ncalls,       \* history: bound callbacks invoked so far
    calls,        \* history: the message ids they were invoked for, in order
    lastCall,     \* the last callback invocation
    nhandled,     \* history: WebMessageReceived invocations that returned
    lastHandled,  \* the last of them: the message and whether the registry was held
    waitRet       \* the last return of wait_with_pump

vars == <<stack, result, dq, sends, msgq, quitPosted, quitRetrieved, bindings, lockHeld, url,
          navHandler, navState, shown, windowState, windowAlive, released, owned,
          thr, posted, closes, binds, pending, nextOp, executed, resolutions,
          evalCount, lastScript, ncalls, calls, lastCall, nhandled, lastHandled,
          waitRet>>

\* ------------------------------------------------------------- JSON, text
\* A serde_json Value: a number or a string (a string is a sequence of tokens).
NumValue(n) == [ty |-> "num", n |-> n, s |-> <<>>]
StrValue(s) == [ty |-> "str", n |-> 0, s |-> s]

\* One character class of a JSON string, escaped as serde_json writes it.
EscapeToken(t) ==
    IF t = "\"" THEN "\\\"" ELSE IF t = "\n" THEN "\\n" ELSE t

\* Value::to_string: the JSON text of a value.
ToJson(v) ==
    IF v.ty = "num"
    THEN <<ToString(v.n)>>
    ELSE <<"\"">> \o [i \in 1..Len(v.s) |-> EscapeToken(v.s[i])] \o <<"\"">>

\* (DebugFmtOpaque: a rendering that names the variant only.)
DebugFmtOpaque(msg) == <<"CallbackError">>
\* format!("{:#?}", err) of Error::CallbackError(msg).
DebugFmt(msg) ==
    <<"CallbackError(", "\n", "    ", "\"", msg, "\"", ",", "\n", ")">>

\* (MethodOfStatusNonZero: resolve for any status but 0.)
MethodOfStatusNonZero(status) == IF status # 0 THEN "resolve" ELSE "reject"
\* The script the resolve closure formats.
MethodOfStatus(status) == IF status = 0 THEN "resolve" ELSE "reject"

Script(id, status, payload) ==
    <<"window._rpc[", ToString(id), "].", MethodOfStatus(status), "(">>
        \o payload
        \o <<");", "window._rpc[", ToString(id), "] = undefined;">>

\* ------------------------------------------------------- the wire message
\* The JSON text of a web message, by the shape serde looks at: whether it
\* is an object and what type each of the three fields has.
RawMessage(top, idT, methodT, paramsT, id, method, params) ==
    [top |-> top, idT |-> idT, methodT |-> methodT, paramsT |-> paramsT,
     id |-> id, method |-> method, params |-> params]

NoRaw == RawMessage("none", "absent", "absent", "absent", 0, "", <<>>)

\* What the page may post as its seq-th message: the shim's calls (ids are
\* allocated from nextSeq) and two messages that are no InvokeMessage.
RawChoices(seq) ==
    { RawMessage("obj", "uint", "str", "arr", seq, "Add", <<2, 6>>),
      RawMessage("obj", "uint", "str", "arr", seq, "Fail", <<>>),
      RawMessage("obj", "uint", "str", "absent", seq, "Add", <<>>),
      RawMessage("str", "absent", "absent", "absent", 0, "", <<>>) }

\* (DecodeLax: a decoder that takes any text for an InvokeMessage.)
DecodeLax(raw) ==
    [ok |-> TRUE, id |-> raw.id, method |-> raw.method, params |-> raw.params]
\* serde_json::from_str::<InvokeMessage>.
Decode(raw) ==
    [ok |-> raw.top = "obj" /\ raw.idT = "uint" /\ raw.methodT = "str"
            /\ raw.paramsT = "arr",
     id |-> raw.id, method |-> raw.method, params |-> raw.params]

\* ------------------------------------------------------------- callbacks
\* What a bound callback returns for its params ("pump" also evaluates a
\* script first, see WebMessageReceived).
CallbackResult(cb, params) ==
    IF cb = "sum" /\ Len(params) = 2
    THEN [ok |-> TRUE, value |-> NumValue(params[1] + params[2]), msg |-> ""]
    ELSE IF cb = "sum"
    THEN [ok |-> FALSE, value |-> NumValue(0), msg |-> "usage"]
    ELSE IF cb = "boom"
    THEN [ok |-> FALSE, value |-> NumValue(0), msg |-> "boom"]
    ELSE [ok |-> TRUE, value |-> NumValue(0), msg |-> ""]

\* ------------------------------------------------------------ the frames
\* val is what the frame's channel holds, sent what was sent on it, entry
\* what it held when wait_with_pump was entered; pumped: the wait has
\* retrieved a message, woke: it has retrieved a WM_APP.
Frame(k, pc, op, val, id) ==
    [k |-> k, pc |-> pc, op |-> op, val |-> val, sent |-> val, entry |-> val,
     pumped |-> FALSE, woke |-> FALSE, id |-> id, raw |-> NoRaw]

MainFrame == Frame("main", "setup", 0, NoVal, 0)
\* WebView::bind(name, f) at self.init(&js): its arguments are its locals.
BindFrame(name, cb) ==
    Frame("bind", "init", 0, NoVal, 0) @@ [name |-> name, cb |-> cb]
RunFrame(pc) == Frame("run", pc, 0, NoVal, 0)

\* ---------------------------------------------------------- the messages
Msg(t, id, op) == [t |-> t, id |-> id, op |-> op]
WmApp == Msg("WM_APP", 0, 0)

\* -------------------------------------------------------- the UI's state
State ==
    [stack |-> stack, result |-> result, dq |-> dq, sends |-> sends, msgq |-> msgq,
     quitPosted |-> quitPosted, quitRetrieved |-> quitRetrieved,
     bindings |-> bindings, lockHeld |-> lockHeld,
     navHandler |-> navHandler, navState |-> navState, shown |-> shown,
     windowState |-> windowState, windowAlive |-> windowAlive,
     released |-> released, pending |-> pending, nextOp |-> nextOp,
     executed |-> executed, resolutions |-> resolutions, evalCount |-> evalCount,
     lastScript |-> lastScript, ncalls |-> ncalls, calls |-> calls,
     lastCall |-> lastCall,
     nhandled |-> nhandled, lastHandled |-> lastHandled, waitRet |-> waitRet]

Commit(s) ==
    /\ stack' = s.stack
    /\ result' = s.result
    /\ dq' = s.dq
    /\ sends' = s.sends
    /\ msgq' = s.msgq
    /\ quitPosted' = s.quitPosted
    /\ quitRetrieved' = s.quitRetrieved
    /\ bindings' = s.bindings
    /\ lockHeld' = s.lockHeld
    /\ navHandler' = s.navHandler
    /\ navState' = s.navState
    /\ shown' = s.shown
    /\ windowState' = s.windowState
    /\ windowAlive' = s.windowAlive
    /\ released' = s.released
    /\ pending' = s.pending
    /\ nextOp' = s.nextOp
    /\ executed' = s.executed
    /\ resolutions' = s.resolutions
    /\ evalCount' = s.evalCount
    /\ lastScript' = s.lastScript
    /\ ncalls' = s.ncalls
    /\ calls' = s.calls
    /\ lastCall' = s.lastCall
    /\ nhandled' = s.nhandled
    /\ lastHandled' = s.lastHandled
    /\ waitRet' = s.waitRet

TopOf(s) == s.stack[Len(s.stack)]
Push(s, f) == [s EXCEPT !.stack = Append(@, f)]
Pop(s) == [s EXCEPT !.stack = SubSeq(@, 1, Len(@) - 1)]
SetTop(s, f) == [s EXCEPT !.stack[Len(s.stack)] = f]

\* ------------------------------------------------------ the DispatchQueue
\* mpsc::Sender::send and Receiver::try_recv on the closure channel.
\* (SendFront: a queue that hands out the newest closure first.)
\* (SendReadyBounded: the sender of a channel of capacity 1, which makes
\* its caller wait while a closure is queued.)
SendReadyBounded(q) == Len(q) < 1
\* mpsc::channel() is unbounded: Sender::send never waits for the receiver.
SendReady(q) == TRUE
SendFront(q, c) == <<c>> \o q
Send(q, c) == Append(q, c)
TryRecvOk(q) == q # <<>>
TryRecvItem(q) == Head(q)
\* (TryRecvKeep: a receive that leaves the closure in the queue.)
TryRecvKeep(q) == q
TryRecvRest(q) == Tail(q)

\* (PostThreadMessageLost: a dispatch that posts no wake message.)
PostThreadMessageLost(mq) == mq
\* PostThreadMessageA(thread_id, WM_APP, 0, 0).
PostThreadMessage(mq) == Append(mq, WmApp)

\* by: the thread that sent it; live: run's loop was active and GetMessageA
\* had not returned 0 when it was sent.
Closure(n, kind, rid, status, payload, by, live) ==
    [id |-> n, kind |-> kind, rid |-> rid, status |-> status,
     payload |-> payload, by |-> by, live |-> live]

\* run is in its loop (past the navigation wait) and has not left it.
LoopActiveIn(stk, res) ==
    res = "none" /\ stk[1].k = "run" /\ stk[1].pc # "navwait"

\* WebView::dispatch called on the UI thread: send the closure, post WM_APP.
Dispatch(s, kind, rid, status, payload) ==
    LET c == Closure(s.sends + 1, kind, rid, status, payload, UiThread,
                     LoopActiveIn(s.stack, s.result) /\ ~s.quitRetrieved)
    IN  [s EXCEPT !.dq = Send(@, c),
                  !.sends = @ + 1,
                  !.msgq = PostThreadMessage(@)]

\* (ResolveTwice: a resolve that dispatches its closure twice.)
\* (ResolveNow: a resolve that evaluates the script where it is called.)
ResolveNow(s, id, status, value) ==
    [s EXCEPT !.resolutions[id] = @ + 1,
              !.evalCount[id] = @ + 1,
              !.lastScript = Script(id, status, ToJson(value))]
ResolveTwice(s, id, status, value) ==
    [Dispatch(Dispatch(s, "resolve", id, status, ToJson(value)),
              "resolve", id, status, ToJson(value))
        EXCEPT !.resolutions[id] = @ + 2]

\* WebView::resolve: serialize the result, dispatch the closure that will
\* evaluate the resolution script.
Resolve(s, id, status, value) ==
    [Dispatch(s, "resolve", id, status, ToJson(value))
        EXCEPT !.resolutions[id] = @ + 1]

\* WebView::set_window_webview: store the pointer, hand back the old box
\* (which the caller drops).
SetWindowWebview(s, ptr) ==
    [s EXCEPT !.windowState = ptr,
              !.released = IF s.windowState # 0 THEN @ + 1 ELSE @]

\* WebView::terminate.
Terminate(s) ==
    LET s1 == Dispatch(s, "quit", 0, 0, <<>>)
    IN  IF owned THEN SetWindowWebview(s1, 0) ELSE s1

\* ------------------------------------------------------------- the mutex
\* Mutex::try_lock and Mutex::lock on the bindings mutex, by what the UI
\* thread gets when the mutex is or is not held.
\* (MutexTryLockWaits: an acquisition that waits for the holder.)
MutexTryLockWaits(held) == IF held THEN "blocked" ELSE "acquired"
MutexTryLock(held) == IF held THEN "busy" ELSE "acquired"
MutexLock(held) == IF held THEN "blocked" ELSE "acquired"

Blocked(s) == [s EXCEPT !.result = "blocked_on_registry"]

\* ------------------------------------------------- asynchronous operations
\* wait_for_async_operation up to its wait: a fresh channel, the operation
\* started with a completion handler that sends on it, then wait_with_pump.
\* sv is the value the platform completed with inside the start call, or
\* NoVal when the completion comes later as a message.
StartWait(s, sv) ==
    LET op == s.nextOp
        s1 == [s EXCEPT !.nextOp = op + 1,
                        !.pending = IF sv = NoVal THEN @ \cup {op} ELSE @]
    IN  Push(s1, Frame("wait", "loop", op, sv, 0))

\* A completion handler's tx.send(v) on the channel of operation op; the
\* send is dropped when the receiver is gone.
Deliver(s, op, v) ==
    [s EXCEPT !.stack = [i \in 1..Len(@) |->
                            IF @[i].k = "wait" /\ @[i].op = op /\ @[i].val = NoVal
                            THEN [@[i] EXCEPT !.val = v, !.sent = v] ELSE @[i]]]

\* WebView::eval: ExecuteScript(js), then the wait for its completion.
Eval(s, js, sv) == StartWait([s EXCEPT !.lastScript = js], sv)

\* What wait_for_async_operation makes of wait_with_pump's return.
AsyncOk(ok, v) == ok /\ v = "S_OK"

\* ------------------------------------------------ the message handler
\* The handler returns Ok(()).
Handled(s, raw, contended) ==
    [s EXCEPT !.nhandled = @ + 1,
              !.lastHandled = [raw |-> raw, contended |-> contended]]

\* The handler's tail once the callback has returned r: resolve or reject,
\* release the registry, return Ok(()).
HandlerFinish(s, id, r) ==
    LET s1 == IF r.ok THEN Resolve(s, id, 0, r.value)
              ELSE Resolve(s, id, 1, StrValue(DebugFmt(r.msg)))
    IN  [s1 EXCEPT !.lockHeld = FALSE]

UserScript == <<"user script">>

\* (LookupDefault: a lookup that falls back to a failing callback.)
LookupDefault(b, method) == IF method \in DOMAIN b THEN b[method] ELSE "boom"
\* bindings.get_mut(&value.method): the callback, or "none".
Lookup(b, method) == IF method \in DOMAIN b THEN b[method] ELSE "none"

\* The WebMessageReceived handler installed by WebView::create.
WebMessageReceived(s, raw, sv) ==
    LET value == Decode(raw)
        acq == MutexTryLock(s.lockHeld)
    IN  IF ~value.ok THEN Handled(s, raw, s.lockHeld)
        ELSE IF acq = "blocked" THEN Blocked(s)
        ELSE IF acq = "busy" THEN Handled(s, raw, TRUE)
        ELSE IF Lookup(s.bindings, value.method) = "none" THEN Handled(s, raw, FALSE)
        ELSE LET cb == Lookup(s.bindings, value.method)
                 s1 == [s EXCEPT !.ncalls = @ + 1,
                                 !.calls = Append(@, value.id),
                                 !.lastCall = [id |-> value.id, cb |-> cb,
                                               params |-> value.params],
                                 !.lockHeld = TRUE]
             IN  IF cb = "pump"
                 THEN Eval(Push(s1, [Frame("handler", "callback", 0, NoVal, value.id)
                                        EXCEPT !.raw = raw]),
                           UserScript, sv)
                 ELSE Handled(HandlerFinish(s1, value.id,
                                            CallbackResult(cb, value.params)),
                              raw, FALSE)

\* ------------------------------------------------ the window procedure
\* (OnDestroyAlways: a window procedure that terminates on every destroy
\* notification, associated or not.)
OnDestroyAlways(s) == Terminate(s)
\* window_proc for WM_DESTROY.
OnDestroy(s) == IF s.windowState = 0 THEN s ELSE Terminate(s)

\* window_proc for WM_CLOSE: DestroyWindow, which sends WM_DESTROY at once
\* (DefWindowProc does the same for an unowned window).
OnClose(s) == OnDestroy([s EXCEPT !.windowAlive = FALSE])

WindowProc(s, t) ==
    IF ~s.windowAlive THEN s
    ELSE IF t = "WM_CLOSE" THEN OnClose(s)
    ELSE OnDestroy(s)

\* What a message turns out to say when it is dispatched: the text of a web
\* message (and how the script a callback evaluates completes), the outcome
\* of a completed operation.
Choice(raw, sv, cv) == [raw |-> raw, sv |-> sv, cv |-> cv]
SyncValues == {NoVal} \cup CompletionValues

Choices(m) ==
    IF m.t = "WebMessage"
    THEN {Choice(raw, sv, NoVal) : raw \in RawChoices(m.id), sv \in SyncValues}
    ELSE IF m.t = "Completed"
    THEN {Choice(NoRaw, NoVal, cv) : cv \in CompletionValues}
    ELSE {Choice(NoRaw, NoVal, NoVal)}

HeadChoices(mq) == IF mq = <<>> THEN {} ELSE Choices(Head(mq))

\* DispatchMessageA: the message goes to what handles it.
\* (OnWakeDrain: a pump that receives and starts a queued closure when it
\* retrieves the wake message.)
OnWakeDrain(s) ==
    IF s.dq = <<>> THEN s
    ELSE [s EXCEPT !.dq = Tail(@),
                   !.executed = Append(@, [id |-> Head(s.dq).id,
                                           from |-> Head(s.dq).by,
                                           by |-> UiThread, in |-> "wait",
                                           rid |-> Head(s.dq).rid])]
\* wait_with_pump hands WM_APP to DispatchMessageA like any message: it is
\* a thread message (no window), so no procedure runs and nothing changes.
OnWake(s) == s

DispatchMessage(s, m, ch) ==
    CASE m.t = "WM_APP" -> OnWake(s)
      [] m.t = "Completed" -> Deliver(s, m.op, ch.cv)
      [] m.t = "NavCompleted" ->
            IF s.navHandler # 0 THEN Deliver(s, s.navHandler, "unit") ELSE s
      [] m.t = "WebMessage" -> WebMessageReceived(s, ch.raw, ch.sv)
      [] OTHER -> WindowProc(s, m.t)

\* GetMessageA: posted messages first, WM_QUIT once none is left, else block.
GetMessage(mq, quit) ==
    IF mq # <<>> THEN "message" ELSE IF quit THEN "quit" ELSE "blocked"

\* ------------------------------------------- what follows a nested wait
\* (ErrorOfCanceled: every error is reported as a cancelled task.)
ErrorOfCanceled(ok, v) == "err_canceled"
\* `result?`: the error run returns, by the variant of Error the wait gave.
ErrorOf(ok, v) ==
    IF ~ok /\ v = "TaskCanceled" THEN "err_canceled" ELSE "err_windows"

\* (RunIgnoringNavigation: a run that shows the window and enters its loop
\* whatever the navigation wait returned.)
RunIgnoringNavigation(s, ok, v) ==
    SetTop([s EXCEPT !.navHandler = 0, !.shown = owned], RunFrame("drain"))

\* WebView::run after wait_with_pump(rx): remove the NavigationCompleted
\* handler, propagate an error, else show the window and enter the loop.
RunAfterNavigation(s, ok, v) ==
    LET s1 == [s EXCEPT !.navHandler = 0]
    IN  IF ok
        THEN SetTop([s1 EXCEPT !.shown = owned], RunFrame("drain"))
        ELSE [s1 EXCEPT !.result = ErrorOf(ok, v)]

\* The resolve closure after webview.eval(&js): expect("eval return script").
ClosureAfterEval(s, ok, v) ==
    IF AsyncOk(ok, v) THEN Pop(s) ELSE [s EXCEPT !.result = "panicked"]

\* What the "pump" callback returns once its own eval has returned.
PumpResult(ok, v) ==
    IF AsyncOk(ok, v)
    THEN [ok |-> TRUE, value |-> NumValue(0), msg |-> ""]
    ELSE [ok |-> FALSE, value |-> NumValue(0), msg |-> "eval"]

\* The handler after the "pump" callback has returned.
HandlerAfterCallback(s, ok, v) ==
    LET h == TopOf(s)
    IN  Handled(HandlerFinish(Pop(s), h.id, PumpResult(ok, v)), h.raw, FALSE)

\* WebView::bind after self.init(&js); main propagates an error with `?`.
BindAfterInit(s, ok, v) ==
    IF AsyncOk(ok, v) THEN Pop(s) ELSE [s EXCEPT !.result = ErrorOf(ok, v)]

\* (WaitValueDefault: a wait that reports success whatever was sent.)
WaitValueDefault(w) == "S_OK"
\* What wait_with_pump's try_recv hands back: the value in the channel.
WaitValue(w) == w.val

\* wait_with_pump returns Ok(v) (ok) or Err(v) to its caller.
Return(s, ok, v) ==
    LET w == TopOf(s)
        s1 == [Pop(s) EXCEPT !.waitRet = [op |-> w.op, ok |-> ok, v |-> v,
                                          sent |-> w.sent]]
        c == TopOf(s1)
    IN  CASE c.k = "run" -> RunAfterNavigation(s1, ok, v)
          [] c.k = "closure" -> ClosureAfterEval(s1, ok, v)
          [] c.k = "handler" -> HandlerAfterCallback(s1, ok, v)
          [] OTHER -> BindAfterInit(s1, ok, v)

\* ------------------------------------------------------ dispatched closures
\* The body of a closure received from the DispatchQueue.
ExecClosure(s, c, sv) ==
    CASE c.kind = "quit" -> [s EXCEPT !.quitPosted = TRUE]
      [] c.kind = "terminate" -> Terminate(s)
      [] c.kind = "resolve" ->
            Eval(Push([s EXCEPT !.evalCount[c.rid] = @ + 1],
                      Frame("closure", "eval", 0, NoVal, c.rid)),
                 Script(c.rid, c.status, c.payload), sv)
      [] OTHER -> s

\* ------------------------------------------------------------------ Init
\* (CreateAssociationAlways: create associates every session's window.)
CreateAssociationAlways(own) == 1
\* The end of WebView::create: only a session with its own frame window is
\* stored (boxed clone) in that window's user data.
CreateAssociation(own) == IF own THEN 1 ELSE 0

NoWait == [op |-> 0, ok |-> FALSE, v |-> NoVal, sent |-> NoVal]
NoCall == [id |-> 0, cb |-> "", params |-> <<>>]
NoHandled == [raw |-> NoRaw, contended |-> FALSE]

Init ==
    /\ stack = <<MainFrame>>
    /\ result = "none"
    /\ dq = <<>>
    /\ sends = 0
    /\ msgq = <<>>
    /\ quitPosted = FALSE
    /\ quitRetrieved = FALSE
    /\ bindings = [n \in {} |-> ""]
    /\ lockHeld = FALSE
    /\ url = ""
    /\ navHandler = 0
    /\ navState = "idle"
    /\ shown = FALSE
    /\ owned \in BOOLEAN
    /\ windowState = CreateAssociation(owned)
    /\ windowAlive = TRUE
    /\ released = 0
    /\ thr = [t \in Threads |-> "idle"]
    /\ posted = 0
    /\ closes = 0
    /\ binds = 0
    /\ pending = {}
    /\ nextOp = 1
    /\ executed = <<>>
    /\ resolutions = [i \in MsgIds |-> 0]
    /\ evalCount = [i \in MsgIds |-> 0]
    /\ lastScript = <<>>
    /\ ncalls = 0
    /\ calls = <<>>
    /\ lastCall = NoCall
    /\ nhandled = 0
    /\ lastHandled = NoHandled
    /\ waitRet = NoWait

Top == stack[Len(stack)]
Running == result = "none"
Started == stack[1].k = "run"
EnvVars == <<thr, posted, closes>>

\* The inputs the session has received so far: bind calls, web messages,
\* close requests, dispatches from other threads (a fatal error of message
\* retrieval is one more input, and the last).
Inputs == binds + posted + closes + Cardinality({t \in Threads : thr[t] # "idle"})
MoreInput == Inputs < MaxInputs

\* ------------------------------------------------- main, before run
\* HashMap::insert.
\* (InsertIfAbsent: an insert that keeps the callback a name already has.)
InsertIfAbsent(b, name, cb) ==
    [n \in DOMAIN b \cup {name} |-> IF n \in DOMAIN b THEN b[n] ELSE cb]
Insert(b, name, cb) ==
    [n \in DOMAIN b \cup {name} |-> IF n = name THEN cb ELSE b[n]]

\* WebView::bind(name, f).
Bind(name, cb, sv) ==
    /\ Running /\ Top.k = "main" /\ binds < MaxBinds /\ MoreInput
    /\ binds' = binds + 1
    /\ IF MutexLock(lockHeld) = "blocked"
       THEN Commit(Blocked(State))
       ELSE Commit(StartWait(Push([State EXCEPT !.bindings = Insert(@, name, cb)],
                                  BindFrame(name, cb)), sv))
    /\ UNCHANGED <<url, owned, EnvVars>>

\* WebView::navigate(url).
Navigate(u) ==
    /\ Running /\ Top.k = "main" /\ u # url
    /\ url' = u
    /\ UNCHANGED <<stack, result, dq, sends, msgq, quitPosted, quitRetrieved, bindings, lockHeld,
                   navHandler, navState, shown, windowState, windowAlive, released,
                   owned, thr, posted, closes, binds, pending, nextOp, executed,
                   resolutions, evalCount, lastScript, ncalls, calls, lastCall,
                   nhandled, lastHandled, waitRet>>

\* WebView::run up to its loop: with a target, register the
\* NavigationCompleted handler, Navigate, wait; else show the window.
Run(sv) ==
    /\ Running /\ Top.k = "main"
    /\ IF url # ""
       THEN Commit(StartWait([State EXCEPT !.stack = <<RunFrame("navwait")>>,
                                           !.navHandler = nextOp,
                                           !.navState = IF sv = NoVal THEN "started"
                                                        ELSE "completed"], sv))
       ELSE /\ sv = NoVal
            /\ Commit([State EXCEPT !.stack = <<RunFrame("drain")>>, !.shown = owned])
    /\ UNCHANGED <<url, owned, binds, EnvVars>>

\* ------------------------------------------------------- run's loop
\* while let Ok(f) = self.rx.try_recv() { f(self.clone()) }
RunDrainExec(sv) ==
    /\ Running /\ Top.k = "run" /\ Top.pc = "drain"
    /\ TryRecvOk(dq)
    /\ LET c == TryRecvItem(dq)
           s1 == [State EXCEPT !.dq = TryRecvRest(dq),
                               !.executed = Append(@, [id |-> c.id, from |-> c.by,
                                                       by |-> UiThread,
                                                       in |-> Top.k,
                                                       rid |-> c.rid])]
       IN  /\ sv # NoVal => c.kind = "resolve"
           /\ Commit(ExecClosure(s1, c, sv))
    /\ UNCHANGED <<url, owned, binds, EnvVars>>

\* try_recv finds the queue empty: on to GetMessageA.
RunDrainEmpty ==
    /\ Running /\ Top.k = "run" /\ Top.pc = "drain"
    /\ ~TryRecvOk(dq)
    /\ Commit(SetTop(State, RunFrame("get")))
    /\ UNCHANGED <<url, owned, binds, EnvVars>>

\* (RunLoopBackGet: a loop that goes straight back to GetMessageA.)
RunLoopBackGet == RunFrame("get")
\* Where run's loop goes after a message: the top of the loop, the drain.
RunLoopBack == RunFrame("drain")

\* GetMessageA returns a message: WM_APP is dropped, any other is dispatched.
RunGetMessage(ch) ==
    /\ Running /\ Top.k = "run" /\ Top.pc = "get"
    /\ GetMessage(msgq, quitPosted) = "message"
    /\ LET m == Head(msgq)
           s1 == SetTop([State EXCEPT !.msgq = Tail(@)], RunLoopBack)
       IN  Commit(IF m.t = "WM_APP" THEN s1 ELSE DispatchMessage(s1, m, ch))
    /\ UNCHANGED <<url, owned, binds, EnvVars>>

\* GetMessageA returns 0: break Ok(()).
RunGetQuit ==
    /\ Running /\ Top.k = "run" /\ Top.pc = "get"
    /\ GetMessage(msgq, quitPosted) = "quit"
    /\ Commit([State EXCEPT !.quitPosted = FALSE, !.quitRetrieved = TRUE,
                            !.result = "ok"])
    /\ UNCHANGED <<url, owned, binds, EnvVars>>

\* GetMessageA returns -1: break Err(..).
RunGetFatal ==
    /\ Running /\ Top.k = "run" /\ Top.pc = "get" /\ MoreInput
    /\ Commit([State EXCEPT !.result = "err_windows"])
    /\ UNCHANGED <<url, owned, binds, EnvVars>>

\* ------------------------------------------------------ wait_with_pump
\* rx.try_recv() is Ok(result): return Ok(result).
WaitReturn ==
    /\ Running /\ Top.k = "wait" /\ Top.val # NoVal
    /\ Commit(Return(State, TRUE, WaitValue(Top)))
    /\ UNCHANGED <<url, owned, binds, EnvVars>>

\* The channel is empty and GetMessageA returns a message: dispatch it.
WaitGetMessage(ch) ==
    /\ Running /\ Top.k = "wait" /\ Top.val = NoVal
    /\ GetMessage(msgq, quitPosted) = "message"
    /\ LET m == Head(msgq)
           s1 == SetTop([State EXCEPT !.msgq = Tail(@)],
                        [Top EXCEPT !.pumped = TRUE, !.woke = @ \/ m.t = "WM_APP"])
       IN  Commit(DispatchMessage(s1, m, ch))
    /\ UNCHANGED <<url, owned, binds, EnvVars>>

\* (WaitQuitErrorPlatform: a wait that reports a quit as a platform error.)
WaitQuitErrorPlatform == "WindowsError"
\* What wait_with_pump returns when GetMessageA returns 0.
WaitQuitError == "TaskCanceled"

\* The channel is empty and GetMessageA returns 0: Err(TaskCanceled).
WaitGetQuit ==
    /\ Running /\ Top.k = "wait" /\ Top.val = NoVal
    /\ GetMessage(msgq, quitPosted) = "quit"
    /\ Commit(Return([State EXCEPT !.quitPosted = FALSE, !.quitRetrieved = TRUE],
                     FALSE, WaitQuitError))
    /\ UNCHANGED <<url, owned, binds, EnvVars>>

\* The channel is empty and GetMessageA returns -1: Err(WindowsError).
WaitGetFatal ==
    /\ Running /\ Top.k = "wait" /\ Top.val = NoVal /\ MoreInput
    /\ Commit(Return(State, FALSE, "WindowsError"))
    /\ UNCHANGED <<url, owned, binds, EnvVars>>

\* ------------------------------------------------ the other threads
UiVars == <<stack, result, quitPosted, quitRetrieved, bindings, lockHeld, url, navHandler, shown,
            windowState, windowAlive, released, owned, binds, nextOp, executed,
            resolutions, evalCount, lastScript, ncalls, calls, lastCall, nhandled,
            lastHandled, waitRet>>

\* What the closure of another thread does: some work that leaves the
\* session alone, or a call of terminate on the WebView it is handed.
ThreadClosures == {"work", "terminate"}

\* WebView::dispatch on thread t, first half: self.tx.send(Box::new(f)).
\* (The threads are numbered in the order of their calls.)
ThreadSend(t, kind) ==
    /\ Running /\ thr[t] = "idle" /\ MoreInput
    /\ SendReady(dq)
    /\ \A u \in Threads : u < t => thr[u] # "idle"
    /\ dq' = Send(dq, Closure(sends + 1, kind, 0, 0, <<>>, t,
                               LoopActiveIn(stack, result) /\ ~quitRetrieved))
    /\ sends' = sends + 1
    /\ thr' = [thr EXCEPT ![t] = "sent"]
    /\ UNCHANGED <<UiVars, msgq, navState, pending, posted, closes>>

\* WebView::dispatch on thread t, second half: PostThreadMessageA(WM_APP).
ThreadPost(t) ==
    /\ Running /\ thr[t] = "sent"
    /\ msgq' = PostThreadMessage(msgq)
    /\ thr' = [thr EXCEPT ![t] = "done"]
    /\ UNCHANGED <<UiVars, dq, sends, navState, pending, posted, closes>>

\* ------------------------------------------------ the platform, the page
\* The page's script posts a message; WebView2 queues the event.
PostWebMessage ==
    /\ Running /\ Started /\ posted < MaxMsgs /\ MoreInput
    /\ posted' = posted + 1
    /\ msgq' = Append(msgq, Msg("WebMessage", posted + 1, 0))
    /\ UNCHANGED <<UiVars, dq, sends, navState, pending, thr, closes>>

\* WebView2 completes an asynchronous operation: the completion is queued.
CompleteOp(op) ==
    /\ Running /\ op \in pending /\ op # navHandler
    /\ pending' = pending \ {op}
    /\ msgq' = Append(msgq, Msg("Completed", 0, op))
    /\ UNCHANGED <<UiVars, dq, sends, navState, thr, posted, closes>>

\* The navigation completes: the NavigationCompleted event is queued.
NavComplete ==
    /\ Running /\ navState = "started"
    /\ navState' = "completed"
    /\ pending' = pending \ {navHandler}
    /\ msgq' = Append(msgq, Msg("NavCompleted", 0, 0))
    /\ UNCHANGED <<UiVars, dq, sends, thr, posted, closes>>

\* The user closes the frame window: WM_CLOSE is queued.
UserClose ==
    /\ Running /\ Started /\ owned /\ windowAlive /\ closes < MaxClose /\ MoreInput
    /\ closes' = closes + 1
    /\ msgq' = Append(msgq, Msg("WM_CLOSE", 0, 0))
    /\ UNCHANGED <<UiVars, dq, sends, navState, pending, thr, posted>>

\* ------------------------------------------------------------------ Next
Next ==
    \/ \E b \in BindChoices, sv \in SyncValues : Bind(b[1], b[2], sv)
    \/ \E u \in Urls : Navigate(u)
    \/ \E sv \in {NoVal, "unit"} : Run(sv)
    \/ \E sv \in SyncValues : RunDrainExec(sv)
    \/ RunDrainEmpty
    \/ \E ch \in HeadChoices(msgq) : RunGetMessage(ch)
    \/ RunGetQuit
    \/ RunGetFatal
    \/ WaitReturn
    \/ \E ch \in HeadChoices(msgq) : WaitGetMessage(ch)
    \/ WaitGetQuit
    \/ WaitGetFatal
    \/ \E t \in Threads, kind \in ThreadClosures : ThreadSend(t, kind)
    \/ \E t \in Threads : ThreadPost(t)
    \/ PostWebMessage
    \/ \E op \in pending : CompleteOp(op)
    \/ NavComplete
    \/ UserClose

Spec == Init /\ [][Next]_vars

\* The UI thread takes its next step whenever it has one (a fatal error of
\* message retrieval is never forced), a thread that has sent its closure
\* goes on to post the wake message, and WebView2 completes what it started.
UiStep ==
    \/ \E sv \in SyncValues : RunDrainExec(sv)
    \/ RunDrainEmpty
    \/ \E ch \in HeadChoices(msgq) : RunGetMessage(ch)
    \/ RunGetQuit
    \/ WaitReturn
    \/ \E ch \in HeadChoices(msgq) : WaitGetMessage(ch)
    \/ WaitGetQuit

PlatformStep ==
    \/ \E op \in pending : CompleteOp(op)
    \/ NavComplete

FairSpec ==
    /\ Spec
    /\ WF_vars(UiStep)
    /\ \A t \in Threads : WF_vars(ThreadPost(t))
    /\ WF_vars(PlatformStep)

\* ============================================================ properties
ExecutedIds == {executed[i].id : i \in 1..Len(executed)}
QueuedIds == {dq[i].id : i \in 1..Len(dq)}

LoopActive == LoopActiveIn(stack, result)

\* C1: closures dispatched from any threads are executed by run's loop in
\* the order in which they were enqueued: of two executed closures the one
\* sent earlier started earlier, and no closure still queued was sent
\* before one that has started.
C1_FifoOrder ==
    /\ \A i, j \in 1..Len(executed) :
            i < j => executed[i].id < executed[j].id
    /\ \A i \in 1..Len(executed), k \in 1..Len(dq) :
            executed[i].id < dq[k].id

\* Closures sent by two different threads and one sent by the UI thread
\* have been executed.
C1_Witness ==
    /\ Len(executed) >= 3
    /\ \E i, j, k \in 1..Len(executed) :
            /\ executed[i].from \in Threads
            /\ executed[j].from \in Threads
            /\ executed[i].from # executed[j].from
            /\ executed[k].from = UiThread

\* C2: a dispatched closure is executed at most once, and only by the
\* thread that runs the message loop, in run's drain step: no id occurs
\* twice among the executed closures, none of them is still queued, and
\* each was started by the UI thread while run was the running frame.
C2_AtMostOnceByOwner ==
    /\ \A i, j \in 1..Len(executed) :
            executed[i].id = executed[j].id => i = j
    /\ ExecutedIds \cap QueuedIds = {}
    /\ \A i \in 1..Len(executed) :
            executed[i].by = UiThread /\ executed[i].in = "run"
    /\ Cardinality(ExecutedIds) + Len(dq) = sends

\* A closure sent by another thread has been executed, with a second one
\* executed and a third still queued.
C2_Witness ==
    /\ Len(executed) >= 2
    /\ \E i \in 1..Len(executed) : executed[i].from \in Threads
    /\ dq # <<>>

\* C3: no lost wake-up.  Whenever closures are in the DispatchQueue while
\* run's loop is active, the loop goes on to receive them all (the
\* dispatches being finitely many, each queued closure is then executed),
\* or the loop ends first (GetMessageA returns 0 or -1 in the loop or in a
\* nested wait_with_pump, or a closure panics): the loop never stays blocked
\* in message retrieval, or in a nested wait that has consumed the wake
\* message, with a closure queued.
C3_NoLostWakeup ==
    (LoopActive /\ dq # <<>>) ~> (dq = <<>> \/ ~Running)

\* C3 as stated, in the form a finite run refutes: when run has returned
\* Ok(()) no closure is left in the queue that was sent while the loop was
\* active and GetMessageA had not yet returned 0.
C3_Original ==
    result = "ok" => \A i \in 1..Len(dq) : ~dq[i].live

\* A nested wait_with_pump, running inside a closure that run's loop
\* executes, has consumed a wake message; no wake message is left, and the
\* closure a thread has dispatched (send and post both done) is still queued.
C3_Witness ==
    /\ Running /\ Len(stack) = 3
    /\ stack[1].k = "run" /\ stack[2].k = "closure"
    /\ Top.k = "wait" /\ Top.woke
    /\ \A i \in 1..Len(msgq) : msgq[i].t # "WM_APP"
    /\ \E i \in 1..Len(dq) :
            dq[i].by \in Threads /\ thr[dq[i].by] = "done" /\ dq[i].live

\* The message the last returned WebMessageReceived invocation was given.
LastDecoded == Decode(lastHandled.raw)
Registered(method) == method \in DOMAIN bindings
ResolveClosures(id) ==
    {i \in 1..Len(dq) : dq[i].kind = "resolve" /\ dq[i].rid = id}

ResolutionQueued == \E i \in 1..Len(dq) : dq[i].kind = "resolve"

\* C4: a valid InvokeMessage whose method is registered, handled while the
\* registry is free, yields exactly one resolve-or-reject closure bearing
\* its id; no id ever has more than one, and a resolution closure is either
\* still queued or has had its script evaluated, once.
C4_ExactlyOneResolution ==
    /\ \A id \in MsgIds :
            /\ resolutions[id] <= 1
            /\ evalCount[id] <= resolutions[id]
            /\ Cardinality(ResolveClosures(id)) + evalCount[id] = resolutions[id]
    /\ (/\ nhandled > 0
        /\ LastDecoded.ok
        /\ Registered(LastDecoded.method)
        /\ ~lastHandled.contended)
            => resolutions[LastDecoded.id] = 1

\* C4 as stated: every valid InvokeMessage with a registered method that
\* has been handled has exactly one resolution.
C4_Original ==
    (nhandled > 0 /\ LastDecoded.ok /\ Registered(LastDecoded.method))
        => resolutions[LastDecoded.id] = 1

\* A valid message with a registered method was handled with the registry
\* free, and its one resolution script has been evaluated.
C4_Witness ==
    /\ nhandled > 0 /\ LastDecoded.ok /\ Registered(LastDecoded.method)
    /\ ~lastHandled.contended
    /\ resolutions[LastDecoded.id] = 1
    /\ evalCount[LastDecoded.id] = 1

\* A step in which a pump retrieves the web message at the head of the
\* message queue, and one in which a WebMessageReceived invocation returns.
WebMessageStep ==
    /\ msgq # <<>>
    /\ Head(msgq).t = "WebMessage"
    /\ (msgq' = <<>> \/ Head(msgq') # Head(msgq))
HandlerReturns == nhandled' = nhandled + 1
Returned == Decode(lastHandled'.raw)

\* The frames under the pump are untouched and the pump is still the
\* running frame: the handler has returned to the loop that dispatched it.
BackInPump ==
    /\ Len(stack') = Len(stack)
    /\ \A i \in 1..(Len(stack) - 1) : stack'[i] = stack[i]
    /\ stack'[Len(stack)].k = stack[Len(stack)].k
    /\ result' = "none"

\* C5: handling a decoded InvokeMessage whose method is not registered
\* leaves the DispatchQueue, the registry and every other attribute of the
\* session as they were (only the message is gone from the message queue),
\* produces no resolution and returns to the pump with success.
C5_UnregisteredNoEffect ==
    [][(WebMessageStep /\ HandlerReturns /\ Returned.ok
            /\ ~Registered(Returned.method))
        => /\ msgq' = Tail(msgq)
           /\ BackInPump
           /\ UNCHANGED <<dq, sends, bindings, lockHeld, url, navHandler, navState,
                          shown, windowState, windowAlive, released, owned,
                          quitPosted, quitRetrieved, pending, nextOp, executed,
                          resolutions, evalCount, lastScript, ncalls, lastCall,
                          waitRet>>]_vars

\* A decoded message for an unregistered method has been handled while
\* another method is registered and a closure is queued.
C5_Witness ==
    /\ nhandled > 0 /\ LastDecoded.ok /\ ~Registered(LastDecoded.method)
    /\ DOMAIN bindings # {}
    /\ dq # <<>>
    /\ Running

\* The text is a JSON object with an unsigned id, a string method and an
\* array params.
IsInvokeMessage(raw) ==
    raw.top = "obj" /\ raw.idT = "uint" /\ raw.methodT = "str" /\ raw.paramsT = "arr"

\* C6: a raw message that does not decode as an InvokeMessage is ignored:
\* its handling invokes no callback, leaves the DispatchQueue (with the
\* resolution closures queued for earlier calls) and the resolutions as
\* they were, and returns to the pump with success; the closures that were
\* queued are received by run's loop afterwards, unless the loop ends first.
C6_UndecodableIgnored ==
    /\ [][(WebMessageStep /\ HandlerReturns /\ ~IsInvokeMessage(lastHandled'.raw))
            => /\ msgq' = Tail(msgq)
               /\ BackInPump
               /\ UNCHANGED <<dq, sends, ncalls, lastCall, resolutions, evalCount,
                              bindings, lockHeld, executed, lastScript>>]_vars
    /\ (/\ nhandled > 0 /\ ~IsInvokeMessage(lastHandled.raw)
        /\ ResolutionQueued /\ LoopActive)
            ~> (dq = <<>> \/ ~Running)

\* An undecodable message has been handled after an earlier call, whose
\* resolution closure is still queued.
C6_Witness ==
    /\ nhandled >= 2 /\ ~IsInvokeMessage(lastHandled.raw)
    /\ ResolutionQueued
    /\ Running

\* What the bound callback returned to the invocation that returns in this
\* step ("pump" returns what its own eval made of its wait).
ReturnedResult ==
    LET cb == bindings[Returned.method]
    IN  IF cb = "pump" THEN PumpResult(waitRet'.ok, waitRet'.v)
        ELSE CallbackResult(cb, Returned.params)

\* An invocation for a registered method, with the registry acquired,
\* returns in this step.
CallbackReturns ==
    /\ HandlerReturns
    /\ IsInvokeMessage(lastHandled'.raw)
    /\ Registered(Returned.method)
    /\ ~lastHandled'.contended

\* This step sends exactly one closure, the last of the queue.
SendsOne == sends' = sends + 1 /\ dq' = Append(dq, dq'[Len(dq')])
Sent == dq'[Len(dq')]

\* run's drain step receives the closure at the head of the queue.
DrainStep == Len(executed') = Len(executed) + 1

ResolveScript(id, payload) ==
    <<"window._rpc[", ToString(id), "].", "resolve", "(">> \o payload
        \o <<");", "window._rpc[", ToString(id), "] = undefined;">>

\* C7: when the callback returns Ok(v) the handler sends one closure, a
\* resolution for the message's id with status 0 whose payload is the JSON
\* text of v (for the sum of [2, 6]: 8), and run's loop turns a status-0
\* resolution into the script that calls resolve(v) on the id's table
\* entry and then clears the entry.
C7_SuccessResolves ==
    [][/\ (CallbackReturns /\ ReturnedResult.ok)
            => /\ SendsOne
               /\ Sent.kind = "resolve" /\ Sent.rid = Returned.id
               /\ Sent.status = 0
               /\ Sent.payload = <<ToString(ReturnedResult.value.n)>>
               /\ (bindings[Returned.method] = "sum" /\ Returned.params = <<2, 6>>)
                    => Sent.payload = <<"8">>
               /\ resolutions' = [resolutions EXCEPT ![Returned.id] = @ + 1]
       /\ (DrainStep /\ Head(dq).kind = "resolve" /\ Head(dq).status = 0)
            => lastScript' = ResolveScript(Head(dq).rid, Head(dq).payload)]_vars

\* The script resolve(8) for id 1 has been evaluated, for the message
\* {id: 1, method: "Add", params: [2, 6]} with Add bound to the sum.
C7_Witness ==
    /\ lastScript = <<"window._rpc[", "1", "].", "resolve", "(", "8", ");",
                      "window._rpc[", "1", "] = undefined;">>
    /\ evalCount[1] = 1
    /\ "Add" \in DOMAIN bindings /\ bindings["Add"] = "sum"
    /\ lastCall = [id |-> 1, cb |-> "sum", params |-> <<2, 6>>]

Tokens(seq) == {seq[i] : i \in 1..Len(seq)}

\* C8: when the callback returns an error the handler sends one closure, a
\* resolution for the message's id with a non-zero status whose payload is
\* a JSON string containing the callback's message; the handler returns to
\* its pump, the UI thread keeps running with run on its stack, and run's
\* loop turns the resolution into a script that calls reject.
C8_FailureRejects ==
    [][/\ (CallbackReturns /\ ~ReturnedResult.ok)
            => /\ SendsOne
               /\ Sent.kind = "resolve" /\ Sent.rid = Returned.id
               /\ Sent.status # 0
               /\ Head(Sent.payload) = "\"" /\ Sent.payload[Len(Sent.payload)] = "\""
               /\ ReturnedResult.msg \in Tokens(Sent.payload)
               /\ result' = "none"
               /\ stack'[1].k = "run"
               /\ stack'[Len(stack')].k \in {"run", "wait"}
       /\ (DrainStep /\ Head(dq).kind = "resolve" /\ Head(dq).status # 0)
            => /\ lastScript'[2] = ToString(Head(dq).rid)
               /\ lastScript'[4] = "reject"
               /\ SubSeq(lastScript', 6, 5 + Len(Head(dq).payload)) = Head(dq).payload]_vars

\* The reject script for a call of the callback that fails with "boom" has
\* been evaluated and run's loop is back at its message retrieval.
C8_Witness ==
    /\ Running /\ Len(stack) = 1 /\ Top.k = "run" /\ Top.pc = "get"
    /\ Len(lastScript) > 4 /\ lastScript[4] = "reject"
    /\ "boom" \in Tokens(lastScript)
    /\ lastCall.cb = "boom"
    /\ evalCount[lastCall.id] = 1

\* C9: the handler never waits for the registry: a web message retrieved
\* while the registry is held is handled in that one step, which invokes no
\* callback, sends no closure and returns to the pump, and the UI thread is
\* never blocked on the registry.
C9_NoRegistryDeadlock ==
    [][/\ result' # "blocked_on_registry"
       /\ (WebMessageStep /\ lockHeld)
            => /\ HandlerReturns
               /\ BackInPump
               /\ msgq' = Tail(msgq)
               /\ UNCHANGED <<ncalls, lastCall, dq, sends, resolutions, lockHeld,
                              bindings>>]_vars

\* A valid message for a registered method was handled while a callback,
\* pumping messages in its own eval, held the registry: it was dropped.
C9_Witness ==
    /\ nhandled > 0 /\ lastHandled.contended
    /\ IsInvokeMessage(lastHandled.raw) /\ Registered(LastDecoded.method)
    /\ resolutions[LastDecoded.id] = 0
    /\ lockHeld /\ Running
    /\ \E i \in 1..Len(stack) : stack[i].k = "handler"

\* C10: wait_with_pump returns Ok with exactly the value that was sent on
\* its channel, and a wait entered with a value already in its channel
\* returns that value as its next step, which takes no message from the
\* message queue.
C10_WaitReturnsSent ==
    [][/\ (waitRet' # waitRet /\ waitRet'.ok)
            => /\ Top.k = "wait"
               /\ waitRet'.op = Top.op
               /\ Top.sent # NoVal
               /\ waitRet'.v = Top.sent
       /\ (Running /\ Top.k = "wait" /\ Top.entry # NoVal /\ stack' # stack)
            => /\ waitRet' = [op |-> Top.op, ok |-> TRUE, v |-> Top.entry,
                              sent |-> Top.entry]
               /\ ~Top.pumped
               /\ Len(msgq') >= Len(msgq)
               /\ SubSeq(msgq', 1, Len(msgq)) = msgq]_vars

\* A wait is entered with the value already in its channel while messages
\* are queued, after an earlier wait has pumped messages and returned the
\* failure code that was sent to it.
C10_Witness ==
    /\ Running /\ Top.k = "wait" /\ Top.entry # NoVal
    /\ msgq # <<>>
    /\ waitRet.op # 0 /\ waitRet.ok /\ waitRet.v = "E_FAIL"
    /\ waitRet.sent = "E_FAIL"

\* A step in which GetMessageA hands out a posted message, and one in which
\* it returns 0 (the quit signal is consumed).
MessageRetrieved == msgq # <<>> /\ msgq' # msgq /\ Len(msgq') <= Len(msgq)
QuitRetrieved == quitPosted /\ ~quitPosted'
Waiting == Running /\ Top.k = "wait" /\ Top.val = NoVal
WaitReturns == waitRet' # waitRet

\* C11: while wait_with_pump waits with its channel empty, a quit signal
\* makes it return Err(TaskCanceled), any other error return is the
\* platform error of a failed retrieval, a retrieved message is dispatched
\* and the wait stays on the stack, still waiting for the same operation;
\* it returns Ok only with a value that was sent to it.
C11_WaitOutcomes ==
    [][/\ (Waiting /\ QuitRetrieved)
            => /\ msgq = <<>>
               /\ waitRet' = [op |-> Top.op, ok |-> FALSE, v |-> "TaskCanceled",
                              sent |-> NoVal]
       /\ (Waiting /\ WaitReturns /\ ~QuitRetrieved)
            => /\ waitRet' = [op |-> Top.op, ok |-> FALSE, v |-> "WindowsError",
                              sent |-> NoVal]
               /\ Len(msgq') >= Len(msgq)
               /\ SubSeq(msgq', 1, Len(msgq)) = msgq
       /\ (Waiting /\ MessageRetrieved)
            => /\ ~WaitReturns
               /\ result' = "none"
               /\ Len(stack') >= Len(stack)
               /\ stack'[Len(stack)].k = "wait"
               /\ stack'[Len(stack)].op = Top.op
               /\ stack'[Len(stack)].entry = Top.entry
               /\ stack'[Len(stack)].pumped
               /\ \A i \in 1..(Len(stack) - 1) : stack'[i].k = stack[i].k
       /\ (WaitReturns /\ waitRet'.ok)
            => /\ Top.k = "wait" /\ Top.val # NoVal
               /\ waitRet'.v = Top.val]_vars

\* A wait has returned Err(TaskCanceled): the quit signal was retrieved by
\* it and not by run's loop.
C11_Witness ==
    /\ waitRet.op # 0 /\ ~waitRet.ok /\ waitRet.v = "TaskCanceled"
    /\ quitRetrieved /\ ~quitPosted
    /\ result # "ok"

AtGet == Running /\ Len(stack) = 1 /\ Top.k = "run" /\ Top.pc = "get"
NothingRetrieved ==
    Len(msgq') >= Len(msgq) /\ SubSeq(msgq', 1, Len(msgq)) = msgq

\* C12: in run's loop a retrieved quit signal ends the loop with Ok(()), a
\* fatal retrieval error ends it with a platform error, WM_APP reaches no
\* window procedure or handler (nothing but the message queue and the
\* loop's position changes) and the loop goes back to its drain, any other
\* message is dispatched and the loop goes back to its drain; once the loop
\* is entered run returns only from GetMessageA's 0 or -1.
C12_LoopEffects ==
    [][/\ (AtGet /\ QuitRetrieved)
            => /\ result' = "ok" /\ msgq = <<>> /\ NothingRetrieved
               /\ UNCHANGED <<dq, sends, executed, nhandled, ncalls>>
       /\ (AtGet /\ result' # "none" /\ ~QuitRetrieved)
            => /\ result' = "err_windows" /\ NothingRetrieved
               /\ UNCHANGED <<dq, sends, executed, nhandled, ncalls, quitPosted>>
       /\ (AtGet /\ MessageRetrieved /\ Head(msgq).t = "WM_APP")
            => /\ msgq' = Tail(msgq)
               /\ stack' = <<RunFrame("drain")>>
               /\ UNCHANGED <<result, dq, sends, quitPosted, quitRetrieved, bindings,
                              lockHeld, url, navHandler, navState, shown,
                              windowState, windowAlive, released, owned, pending,
                              nextOp, executed, resolutions, evalCount, lastScript,
                              ncalls, lastCall, nhandled, lastHandled, waitRet>>
       /\ (AtGet /\ MessageRetrieved /\ Head(msgq).t # "WM_APP")
            => /\ result' = "none"
               /\ stack'[1] = RunFrame("drain")
               /\ UNCHANGED <<executed, quitPosted, quitRetrieved>>
       /\ (LoopActive /\ result' \in {"ok", "err_windows", "err_canceled"})
            => AtGet /\ result' # "err_canceled"]_vars

\* run has returned Ok(()) from its loop after the loop had dispatched a
\* web message, dropped wake messages and executed the quit closure.
C12_Witness ==
    /\ result = "ok" /\ quitRetrieved
    /\ nhandled >= 1
    /\ executed # <<>>

\* A quit closure that terminate sent while run's loop was active (and no
\* quit signal had been retrieved) is in the DispatchQueue.
QuitRequested ==
    Running /\ \E i \in 1..Len(dq) : dq[i].kind = "quit" /\ dq[i].live

\* The platform reported a failure: message retrieval failed fatally, or an
\* asynchronous operation completed with an error code.
PlatformFailed == result = "err_windows" \/ waitRet.v = "E_FAIL"

TerminatedBefore ==
    \/ quitPosted \/ quitRetrieved
    \/ \E i \in 1..Len(dq) : dq[i].kind = "quit"

\* The drain runs a closure whose body is webview.terminate().
TerminateCalled ==
    /\ Running /\ Top.k = "run" /\ Top.pc = "drain"
    /\ dq # <<>> /\ Head(dq).kind = "terminate"
    /\ executed' # executed

\* C14: a terminate call on a session that was terminated before is a
\* no-op: it adds nothing to the DispatchQueue, requests no further quit,
\* leaves the WindowState association as it is, and releases nothing.
C14_SecondTerminateNoOp ==
    [][(TerminatedBefore /\ TerminateCalled)
          => /\ dq' = Tail(dq) /\ sends' = sends /\ msgq' = msgq
             /\ UNCHANGED <<quitPosted, windowState, released>>]_vars

\* A message loop retrieves a close/destroy event of the owned window while
\* the window exists.
WindowEvent ==
    MessageRetrieved /\ Head(msgq).t = "WM_CLOSE" /\ windowAlive

\* C15: a destroy event retrieved while the window's handle is associated
\* with the session makes exactly one terminate call (one quit closure
\* sent, the association removed and the owned reference released); an
\* event retrieved when no association exists calls nothing on the
\* session; and an association once removed never comes back, so the
\* window procedure terminates at most once per handle.
C15_DestroyTerminatesOnce ==
    [][/\ (WindowEvent /\ windowState # 0)
            => /\ sends' = sends + 1
               /\ Len(dq') = Len(dq) + 1
               /\ SubSeq(dq', 1, Len(dq)) = dq
               /\ dq'[Len(dq')].kind = "quit"
               /\ msgq' = Append(Tail(msgq), WmApp)
               /\ windowState' = 0 /\ released' = released + 1
               /\ ~windowAlive'
       /\ (WindowEvent /\ windowState = 0)
            => /\ msgq' = Tail(msgq) /\ ~windowAlive'
               /\ UNCHANGED <<dq, sends, quitPosted, windowState, released,
                              bindings, executed, ncalls, nhandled>>
       /\ windowState = 0 => windowState' = 0]_vars

\* The owned window was destroyed while associated: the only closure ever
\* sent is the quit closure of the window procedure's terminate.
C15_Witness ==
    /\ closes = 1 /\ ~windowAlive /\ windowState = 0 /\ released = 1
    /\ sends = 1 /\ executed = <<>>
    /\ Len(dq) = 1 /\ dq[1].kind = "quit"

\* C16: the window's user data holds at most one session; it holds one
\* exactly for a session that owns its window, from the end of create
\* until the first terminate, and never for a session created on a
\* caller-supplied parent.
C16_WindowStateInvariant ==
    /\ windowState \in {0, 1}
    /\ released \in {0, 1}
    /\ windowState = 1 <=> (owned /\ ~TerminatedBefore)
    /\ released = 1 <=> (owned /\ TerminatedBefore)
    /\ ~owned => windowState = 0 /\ released = 0

\* An owning session was terminated and its loop has ended: the
\* association is gone and the stored reference was released.
C16_Witness ==
    /\ owned /\ TerminatedBefore /\ windowState = 0 /\ released = 1
    /\ result = "ok"

\* run has been called and waits for the navigation to complete.
InNavWait == Started /\ stack[1].pc = "navwait"
\* run has reached its loop (and may have left it since).
LoopEntered == Started /\ stack[1].pc # "navwait"

\* C17: navigate only records the target. run with a non-empty target
\* starts the navigation and pumps messages until the navigation-completed
\* event has been delivered; only then is the window shown and only then
\* the loop entered. With an empty target run starts no navigation and
\* waits for nothing.
C17_NavigateBeforeLoop ==
    /\ [](/\ ~Started => navState = "idle" /\ navHandler = 0 /\ ~shown
          /\ url = "" => navState = "idle" /\ navHandler = 0 /\ ~InNavWait
          /\ (Started /\ url # "") => navState # "idle"
          /\ InNavWait => ~shown /\ executed = <<>>
          /\ shown => owned /\ LoopEntered
          /\ LoopEntered => /\ shown = owned /\ navHandler = 0
                            /\ (url # "" => navState = "completed"))
    /\ [][ /\ url' # url
               => UNCHANGED <<stack, result, dq, sends, msgq, navHandler,
                              navState, shown, pending, nextOp, bindings>>
           /\ (~Started /\ Started' /\ url # "")
               => /\ InNavWait' /\ navHandler' # 0 /\ navState' # "idle"
                  /\ Len(stack') = 2 /\ Top'.k = "wait"
           /\ (~Started /\ Started' /\ url = "")
               => stack' = <<RunFrame("drain")>> /\ pending' = pending
           /\ (InNavWait /\ LoopEntered')
               => /\ Len(stack) = 2 /\ Top.k = "wait" /\ Top.val = "unit"
                  /\ navState = "completed"
                  /\ stack' = <<RunFrame("drain")>>]_vars

\* run was called with a target, pumped a web message while it waited for
\* the navigation, and has entered its loop with the window shown.
C17_Witness ==
    /\ url # "" /\ LoopEntered /\ Running /\ shown
    /\ navState = "completed" /\ nhandled >= 1 /\ executed = <<>>
    /\ waitRet.ok /\ waitRet.v = "unit"

\* bind is called: the frame of the call holds its arguments.
BindCalled == binds' = binds + 1
BindArgs == stack'[Len(stack) + 1]
\* A bound callback is invoked for a web message; the message is the one
\* the handler has just returned from, or the one its frame still holds.
CallbackInvoked == ncalls' # ncalls
InvokedFor ==
    IF nhandled' # nhandled THEN lastHandled'.raw
    ELSE stack'[Len(stack') - 1].raw

\* C18: the registry maps each name to at most one callback. A bind call
\* makes its callback the one registered for its name, replacing the one
\* the name had, and leaves the other names alone; a later InvokeMessage
\* for a name invokes one callback, the one then registered for it.
C18_LatestBinding ==
    /\ [](/\ DOMAIN bindings \subseteq Methods
          /\ \A n \in DOMAIN bindings : bindings[n] \in Callbacks
          /\ Cardinality(DOMAIN bindings) <= binds)
    /\ [][ /\ BindCalled
               => /\ BindArgs.k = "bind"
                  /\ DOMAIN bindings' = DOMAIN bindings \cup {BindArgs.name}
                  /\ bindings'[BindArgs.name] = BindArgs.cb
                  /\ \A n \in DOMAIN bindings \ {BindArgs.name} :
                        bindings'[n] = bindings[n]
           /\ ~BindCalled => bindings' = bindings
           /\ CallbackInvoked
               => /\ ncalls' = ncalls + 1
                  /\ IsInvokeMessage(InvokedFor)
                  /\ InvokedFor.method \in DOMAIN bindings
                  /\ lastCall'.cb = bindings[InvokedFor.method]
                  /\ lastCall'.id = InvokedFor.id]_vars

\* A name was bound twice and a message for it has invoked the callback
\* of the second bind.
C18_Witness ==
    /\ binds = 2 /\ DOMAIN bindings = {"Add"} /\ bindings["Add"] = "boom"
    /\ ncalls = 1 /\ lastCall.cb = "boom" /\ lastScript # <<>>

\* Thread t is about to call dispatch (the model admits one more input and
\* the threads before it have called).
AboutToDispatch(t) ==
    /\ Running /\ thr[t] = "idle" /\ MoreInput
    /\ \A u \in Threads : u < t => thr[u] # "idle"

AtDrain == Running /\ Len(stack) = 1 /\ Top.k = "run" /\ Top.pc = "drain"
\* Every closure that was queued is still queued, in the same order, ahead
\* of any closure sent since.
StaysQueued(q) == Len(dq') >= Len(q) /\ SubSeq(dq', 1, Len(q)) = q

\* C20: a dispatched closure is started only by the drain step of run's
\* loop, which takes the head of the DispatchQueue; in every other step,
\* those of wait_with_pump included (the navigation wait, a wait inside a
\* closure or a callback), the queued closures stay queued in order. So
\* no closure has run before run's loop is entered, which is after the
\* navigation has completed when there is one.
C20_OnlyDrainExecutes ==
    /\ [](executed # <<>>
            => /\ LoopEntered /\ (url # "" => navState = "completed")
               /\ \A i \in 1..Len(executed) :
                     executed[i].in = "run" /\ executed[i].by = UiThread)
    /\ [][ /\ executed' # executed
               => /\ AtDrain /\ dq # <<>>
                  /\ executed' = Append(executed, executed'[Len(executed')])
                  /\ executed'[Len(executed')].id = Head(dq).id
                  /\ StaysQueued(Tail(dq))
           /\ executed' = executed => StaysQueued(dq)]_vars

\* A closure that a thread sent before run's loop was entered (run had a
\* navigation to wait for) is still queued while the wait of the one
\* closure the drain has started pumps messages.
C20_Witness ==
    /\ Running /\ url # "" /\ LoopEntered
    /\ Len(stack) = 3 /\ stack[2].k = "closure"
    /\ Top.k = "wait" /\ Top.pumped
    /\ Len(executed) = 1 /\ Len(dq) >= 1
    /\ \E i \in 1..Len(dq) : ~dq[i].live /\ dq[i].by # UiThread

IsResolution(c) == c.rid # 0
\* The message ids of the resolution closures the drain has started, then
\* of those still queued, in order.
ResolvedIds ==
    LET ev == SelectSeq(executed, IsResolution)
        qd == SelectSeq(dq, IsResolution)
    IN  [i \in 1..(Len(ev) + Len(qd)) |->
            IF i <= Len(ev) THEN ev[i].rid ELSE qd[i - Len(ev)].rid]
\* A WebMessageReceived handler dispatches a resolution.
ResolutionSent == resolutions' # resolutions
\* A callback is running: its handler's frame is on the stack.
InCallback == \E i \in 1..Len(stack) : stack[i].k = "handler"

\* C21: the handler only enqueues the resolution closure (it evaluates no
\* script for it and leaves the registry free when it returns); the script
\* for a call is evaluated by the drain, with no handler on the stack; and
\* the resolution closures are started, and queued, in the order in which
\* their callbacks were invoked.
C21_DeferredInOrder ==
    /\ [](/\ Len(calls) = ncalls
          /\ Len(ResolvedIds) = (IF InCallback THEN ncalls - 1 ELSE ncalls)
          /\ \A i \in 1..Len(ResolvedIds) : ResolvedIds[i] = calls[i])
    /\ [][ /\ ResolutionSent
               => /\ UNCHANGED <<evalCount, executed, lastScript>>
                  /\ Len(dq') = Len(dq) + 1 /\ SubSeq(dq', 1, Len(dq)) = dq
                  /\ dq'[Len(dq')].kind = "resolve"
                  /\ dq'[Len(dq')].rid = calls'[Len(calls')]
                  /\ nhandled' = nhandled + 1 /\ ~lockHeld'
           /\ \A id \in MsgIds :
                evalCount'[id] # evalCount[id]
                  => /\ AtDrain /\ ~InCallback
                     /\ Head(dq).kind = "resolve" /\ Head(dq).rid = id
                     /\ resolutions[id] >= 1
                     /\ evalCount'[id] = evalCount[id] + 1]_vars

\* Two callbacks were invoked, for the messages 1 and 2 in this order, and
\* both resolution scripts have been evaluated.
C21_Witness ==
    /\ calls = <<1, 2>> /\ evalCount[1] = 1 /\ evalCount[2] = 1
    /\ Len(SelectSeq(executed, IsResolution)) = 2

\* The navigation wait itself (not a wait nested in it) returns an error.
NavWaitFails ==
    /\ Running /\ InNavWait /\ Len(stack) = 2
    /\ WaitReturns /\ ~waitRet'.ok
\* The error run returns for the error its wait returned.
ReturnedError(v) == IF v = "TaskCanceled" THEN "err_canceled" ELSE "err_windows"

\* C22: when the navigation wait returns an error, run removes the
\* NavigationCompleted handler and returns that error, without showing the
\* window, entering its loop or starting a queued closure; on the success
\* path the handler is removed as well, so it is registered only while
\* the wait lasts.
C22_NavigationWaitError ==
    /\ [](/\ (InNavWait /\ ~Running)
               => /\ navHandler = 0 /\ ~shown /\ executed = <<>>
                  /\ ~waitRet.ok /\ result = ReturnedError(waitRet.v)
          /\ navHandler # 0 => InNavWait /\ Running)
    /\ [][ /\ NavWaitFails
               => /\ navHandler # 0 /\ navHandler' = 0
                  /\ waitRet'.op = Top.op
                  /\ result' = ReturnedError(waitRet'.v)
                  /\ InNavWait' /\ ~shown'
                  /\ UNCHANGED <<dq, sends, executed>>
           /\ (InNavWait /\ LoopEntered')
               => navHandler # 0 /\ navHandler' = 0 /\ waitRet'.ok]_vars

\* The navigation wait failed with a closure queued: run has returned the
\* platform error, the handler is removed, the owned window is not shown
\* and the closure was not started.
C22_Witness ==
    /\ InNavWait /\ result = "err_windows" /\ navHandler = 0
    /\ owned /\ ~shown /\ dq # <<>> /\ executed = <<>>
    /\ ~waitRet.ok /\ waitRet.v = "WindowsError"

====
